---------------------------- MODULE Spec2Model ----------------------------
(***************************************************************************)
(* Model of supervisor/ingress.py (class Ingress: dynamic ports, sessions, *)
(* token index) and supervisor/plugins/manager.py (class PluginManager).   *)
(*                                                                         *)
(* All coroutines run on one asyncio event loop: a step of the model is    *)
(* the code a coroutine runs between two suspension points (await on       *)
(* check_port, save_data, plugin.load/update/stop).                        *)
(***************************************************************************)
EXTENDS Integers, Sequences, FiniteSets, TLC

VARIABLES
    \* ---- Ingress: dynamic ports (ingress.py 160-184)
    ports,          \* self.ports: addon slug -> port
    saved,          \* the ports map as last written by save_data
    bound,          \* ports on which check_port reports a listener
    pc,             \* per caller task: where its coroutine is suspended
    addon_slug,     \* per caller task: argument of the call in progress
    port,           \* per caller task: local variable port
    lastRet,        \* per slug: port returned by the last get_dynamic_port call
                    \* to return, NoPort once del_dynamic_port removed a port
    fast,           \* the last get_dynamic_port call to return never suspended
    \* ---- Ingress: sessions (ingress.py 88-158)
    now,            \* utcnow(), minutes
    sessions,       \* self.sessions: session id -> expiry timestamp
    sessions_data,  \* self.sessions_data: session id -> metadata record
    result,         \* [op, session, value] of the last finished session call
    life,           \* per session id: what became of the session create_session made
    \* ---- Ingress: token index (ingress.py 62-70, 116-123)
    installed,      \* sys_addons.installed: sequence of addons
    tokens,         \* self.tokens: ingress token -> addon slug
    dropped,        \* tokens the last _update_token_list removed from the index
    \* ---- PluginManager (plugins/manager.py)
    method,         \* the PluginManager coroutine called last, "none" before any
    phase,          \* its loop in progress: "load" | "update" | "stop", or "done"
                    \* once it has ended
    idx,            \* position of the running loop in all_plugins
    inflight,       \* the plugin operations started and not yet completed
    calls,          \* operations started by that coroutine, in order
    finished,       \* operations completed by that coroutine, with their outcome
    issues,         \* sys_resolution.create_issue calls of that coroutine, in order
    need_update,    \* plugin.need_update per plugin slug
    sup_need_update,\* sys_supervisor.need_update
    gate,           \* what sys_supervisor reported when the load loop ended:
                    \* "unread" | "outdated" | "current"
    raised          \* TRUE when that coroutine ended by an exception

varsPorts    == <<ports, saved, bound, pc, addon_slug, port, lastRet, fast>>
varsSessions == <<now, sessions, sessions_data, result, life>>
varsTokens   == <<installed, tokens, dropped>>
varsPlugins  == <<method, phase, idx, inflight, calls, finished, issues,
                  need_update, sup_need_update, gate, raised>>
vars == <<varsPorts, varsSessions, varsTokens, varsPlugins>>

-----------------------------------------------------------------------------
(* Generic helpers on dicts (functions with a finite domain)               *)

Values(f) == {f[x] : x \in DOMAIN f}

Put(f, k, v) == [x \in DOMAIN f \cup {k} |-> IF x = k THEN v ELSE f[x]]

Del(f, k) == [x \in DOMAIN f \ {k} |-> f[x]]

Restrict(f, S) == [x \in S |-> f[x]]

EmptyDict == [x \in {} |-> 0]

Injective(f) == \A a, b \in DOMAIN f : a # b => f[a] # f[b]

Dicts(K, V) == UNION {[S -> V] : S \in SUBSET K}

-----------------------------------------------------------------------------
(* Ingress: dynamic ports                                                  *)

\* Bounds of the model
MaxTasks == 2
NumPorts == 2

\* random.randint(62000, 65500); the model keeps the first NumPorts ports
PortMin == 62000
PortRange == PortMin .. (PortMin + NumPorts - 1)

\* port = None
NoPort == 0

AddonSlugs == {"addon_x", "addon_y"}
Tasks == 1 .. MaxTasks

\* the candidates on which the while loop (166-171) reaches `await check_port`:
\* `port is None` and `port in self.ports.values()` resample without suspending
Candidates == PortRange \ Values(ports)

PortsIdle ==
    /\ ports = EmptyDict
    /\ saved = EmptyDict
    /\ bound = {}
    /\ pc = [t \in Tasks |-> "idle"]
    /\ addon_slug = [t \in Tasks |-> "-"]
    /\ port = [t \in Tasks |-> NoPort]
    /\ lastRet = [w \in AddonSlugs |-> NoPort]
    /\ fast = FALSE

\* what read_data finds in the persisted document: no assignment, or the
\* port of an addon that calls nothing in this run
Persisted == {EmptyDict, [w \in {"addon_z"} |-> PortMin]}

\* after Ingress.__init__ and read_data: the persisted assignments, nothing
\* in flight; the gateway has any set of listeners in the range
PortsInit ==
    /\ ports \in Persisted
    /\ saved = ports
    /\ bound \in SUBSET PortRange
    /\ pc = [t \in Tasks |-> "idle"]
    /\ addon_slug = [t \in Tasks |-> "-"]
    /\ port = [t \in Tasks |-> NoPort]
    /\ lastRet = [w \in AddonSlugs |-> NoPort]
    /\ fast = FALSE

\* a task spinning in the while loop without ever reaching an await keeps the
\* event loop: no other coroutine runs
LoopFree == \A t \in Tasks : pc[t] # "spin"

\* lines 165-171 up to the first `await check_port`
Sample(t, w) ==
    /\ addon_slug' = [addon_slug EXCEPT ![t] = w]
    /\ IF Candidates = {}
         THEN /\ pc' = [pc EXCEPT ![t] = "spin"]
              /\ port' = port
         ELSE \E p \in Candidates :
              /\ port' = [port EXCEPT ![t] = p]
              /\ pc' = [pc EXCEPT ![t] = "check_port"]
    /\ UNCHANGED <<ports, saved, bound, lastRet, fast>>

\* (mutant) the test of line 162 is lost: a port is allocated on every call
GetExistingReallocates(t, w) ==
    /\ w \in DOMAIN ports
    /\ Sample(t, w)

\* lines 162-163: the existing assignment is returned without suspending
GetExisting(t, w) ==
    /\ w \in DOMAIN ports
    /\ lastRet' = [lastRet EXCEPT ![w] = ports[w]]
    /\ fast' = TRUE
    /\ UNCHANGED <<ports, saved, bound, pc, addon_slug, port>>

\* line 162 is false: lines 165-171
GetSample(t, w) ==
    /\ w \notin DOMAIN ports
    /\ Sample(t, w)

\* get_dynamic_port is called by task t for addon w
get_dynamic_port(t, w) ==
    /\ LoopFree
    /\ pc[t] = "idle"
    /\ (GetExisting(t, w) \/ GetSample(t, w))

\* check_port answered True: line 171 resamples until the next await
ProbeBound(t) ==
    /\ port[t] \in bound
    /\ IF Candidates = {}
         THEN /\ pc' = [pc EXCEPT ![t] = "spin"]
              /\ port' = port
         ELSE \E p \in Candidates :
              /\ port' = [port EXCEPT ![t] = p]
              /\ pc' = pc
    /\ UNCHANGED <<ports, saved>>

\* check_port answered False: the loop ends, line 174 stores the port and
\* line 175 suspends in save_data
ProbeFree(t) ==
    /\ port[t] \notin bound
    /\ ports' = Put(ports, addon_slug[t], port[t])
    /\ pc' = [pc EXCEPT ![t] = "save_get"]
    /\ UNCHANGED <<saved, port>>

\* the await of check_port (line 169) of task t completes
check_port_done(t) ==
    /\ LoopFree
    /\ pc[t] = "check_port"
    /\ (ProbeBound(t) \/ ProbeFree(t))
    /\ UNCHANGED <<bound, addon_slug, lastRet, fast>>

\* save_data (lines 175, 184) writes the whole in-memory document as it is
\* when the write is done; writes do not interleave
save_data == ports

\* save_data of get_dynamic_port completes (line 175), line 176 returns port
get_dynamic_port_return(t) ==
    /\ LoopFree
    /\ pc[t] = "save_get"
    /\ saved' = save_data
    /\ lastRet' = [lastRet EXCEPT ![addon_slug[t]] = port[t]]
    /\ fast' = FALSE
    /\ pc' = [pc EXCEPT ![t] = "idle"]
    /\ addon_slug' = [addon_slug EXCEPT ![t] = "-"]
    /\ port' = [port EXCEPT ![t] = NoPort]
    /\ UNCHANGED <<ports, bound>>

\* lines 180-181: nothing assigned, nothing done
DelAbsent(t, w) ==
    /\ w \notin DOMAIN ports
    /\ UNCHANGED <<ports, pc, addon_slug, lastRet>>

\* (mutant) line 184 is lost: the assignment is removed and nothing is saved
DelPresentUnsaved(t, w) ==
    /\ w \in DOMAIN ports
    /\ ports' = Del(ports, w)
    /\ lastRet' = [lastRet EXCEPT ![w] = NoPort]
    /\ UNCHANGED <<pc, addon_slug>>

\* lines 183-184: the assignment is removed, save_data suspends
DelPresent(t, w) ==
    /\ w \in DOMAIN ports
    /\ ports' = Del(ports, w)
    /\ lastRet' = [lastRet EXCEPT ![w] = NoPort]
    /\ pc' = [pc EXCEPT ![t] = "save_del"]
    /\ addon_slug' = [addon_slug EXCEPT ![t] = w]

\* del_dynamic_port is called by task t for addon w
del_dynamic_port(t, w) ==
    /\ LoopFree
    /\ pc[t] = "idle"
    /\ (DelAbsent(t, w) \/ DelPresent(t, w))
    /\ UNCHANGED <<saved, bound, port, fast>>

\* save_data of del_dynamic_port completes (line 184)
del_dynamic_port_return(t) ==
    /\ LoopFree
    /\ pc[t] = "save_del"
    /\ saved' = save_data
    /\ pc' = [pc EXCEPT ![t] = "idle"]
    /\ addon_slug' = [addon_slug EXCEPT ![t] = "-"]
    /\ UNCHANGED <<ports, bound, port, lastRet, fast>>

\* the process is restarted: every coroutine is gone and Ingress.__init__
\* reads the saved configuration
restart ==
    /\ ports' = saved
    /\ pc' = [t \in Tasks |-> "idle"]
    /\ addon_slug' = [t \in Tasks |-> "-"]
    /\ port' = [t \in Tasks |-> NoPort]
    /\ lastRet' = [w \in AddonSlugs |-> NoPort]
    /\ fast' = FALSE
    /\ UNCHANGED <<saved, bound>>

-----------------------------------------------------------------------------
(* Ingress: sessions                                                       *)

\* Bound of the model: the clock stops at MaxNow minutes
MaxNow == 17

\* timedelta(minutes=15)
SessionMinutes == 15

SessionIds == {"s1", "s2"}

\* Timestamps are minutes since the epoch.  utc_from_timestamp accepts the
\* stamps up to MaxStamp and raises OverflowError beyond; BadStamp is such a
\* malformed stamp of the persisted file.
MaxStamp == MaxNow + 2 * SessionMinutes
BadStamp == MaxStamp + 1

\* utc_from_timestamp(valid) raises OverflowError (lines 96-98, 143-145)
Overflows(valid) == valid > MaxStamp

\* metadata records (IngressSessionDataDict) as the set of their keys
NoFields == {}
UserFields == {"user"}
Records == {NoFields, UserFields}

\* truth value of a dict, as tested by `if session_data := ...` (line 107)
Truthy(record) == record # NoFields

SessionsIdle ==
    /\ now = 0
    /\ sessions = EmptyDict
    /\ sessions_data = EmptyDict
    /\ result = [op |-> "init", session |-> "-", value |-> FALSE]
    /\ life = [s \in SessionIds |-> "none"]

\* after read_data: the persisted document holds any two tables
SessionsInit ==
    /\ now = 0
    /\ sessions \in Dicts(SessionIds, {0, SessionMinutes, BadStamp})
    /\ sessions_data \in Dicts(SessionIds, Records)
    /\ result = [op |-> "init", session |-> "-", value |-> FALSE]
    /\ life = [s \in SessionIds |-> "none"]

\* time passes between two calls
Tick ==
    /\ now < MaxNow
    /\ now' = now + 1
    /\ result' = [op |-> "tick", session |-> "-", value |-> FALSE]
    /\ UNCHANGED <<sessions, sessions_data, life>>

\* (mutant) line 102 tests `valid_dt <= now`
SurvivesOnlyFuture(session) ==
    /\ ~Overflows(sessions[session])
    /\ sessions[session] > now

\* lines 94-108: the sessions the pass keeps
Survives(session) ==
    /\ ~Overflows(sessions[session])
    /\ ~(sessions[session] < now)

Kept == {s \in DOMAIN sessions : Survives(s)}

\* (mutant) the metadata table is left as it was
MetadataNotSwept == DOMAIN sessions_data

\* lines 107-108: the metadata the pass carries over
KeptData == {s \in Kept : s \in DOMAIN sessions_data /\ Truthy(sessions_data[s])}

\* _cleanup_sessions, lines 88-114
_cleanup_sessions ==
    /\ sessions' = Restrict(sessions, Kept)
    /\ sessions_data' = Restrict(sessions_data, KeptData)
    /\ result' = [op |-> "cleanup", session |-> "-", value |-> FALSE]
    /\ life' = [s \in SessionIds |->
                  IF s \in DOMAIN sessions /\ s \notin Kept
                    THEN (IF life[s] = "refused" THEN "swept" ELSE "none")
                    ELSE life[s]]
    /\ UNCHANGED now

\* create_session, lines 125-134; secrets.token_hex(64) is an id in use nowhere
create_session(session, data) ==
    /\ session \notin DOMAIN sessions \cup DOMAIN sessions_data
    /\ sessions' = Put(sessions, session, now + SessionMinutes)
    /\ sessions_data' = IF data # "None"
                          THEN Put(sessions_data, session, UserFields)
                          ELSE sessions_data
    /\ result' = [op |-> "create", session |-> session, value |-> TRUE]
    /\ life' = [life EXCEPT ![session] = IF data # "None" THEN "data" ELSE "bare"]
    /\ UNCHANGED now

\* lines 138-140
ValidateUnknown(session) ==
    /\ session \notin DOMAIN sessions
    /\ result' = [op |-> "validate", session |-> session, value |-> FALSE]
    /\ UNCHANGED <<sessions, life>>

\* (mutant) the handler of lines 145-147 refuses the session
ValidateMalformedRejects(session) ==
    /\ session \in DOMAIN sessions
    /\ Overflows(sessions[session])
    /\ result' = [op |-> "validate", session |-> session, value |-> FALSE]
    /\ UNCHANGED <<sessions, life>>

\* lines 143-147
ValidateMalformed(session) ==
    /\ session \in DOMAIN sessions
    /\ Overflows(sessions[session])
    /\ sessions' = [sessions EXCEPT ![session] = now + SessionMinutes]
    /\ result' = [op |-> "validate", session |-> session, value |-> TRUE]
    /\ UNCHANGED life

\* (mutant) the test of line 150 is lost: an expired session is extended
ValidateExpiredExtends(session) ==
    /\ session \in DOMAIN sessions
    /\ ~Overflows(sessions[session])
    /\ sessions[session] < now
    /\ sessions' = [sessions EXCEPT ![session] = @ + SessionMinutes]
    /\ result' = [op |-> "validate", session |-> session, value |-> TRUE]
    /\ UNCHANGED life

\* lines 150-152
ValidateExpired(session) ==
    /\ session \in DOMAIN sessions
    /\ ~Overflows(sessions[session])
    /\ sessions[session] < now
    /\ result' = [op |-> "validate", session |-> session, value |-> FALSE]
    /\ life' = [life EXCEPT ![session] = IF @ = "data" THEN "refused" ELSE @]
    /\ UNCHANGED sessions

\* (mutant) line 155 adds the 15 minutes to utcnow()
ValidateExtendFromNow(session) ==
    /\ session \in DOMAIN sessions
    /\ ~Overflows(sessions[session])
    /\ ~(sessions[session] < now)
    /\ sessions' = [sessions EXCEPT ![session] = now + SessionMinutes]
    /\ result' = [op |-> "validate", session |-> session, value |-> TRUE]
    /\ life' = [life EXCEPT ![session] = IF @ \in {"data", "bare"} THEN "used" ELSE @]

\* lines 155-158; the model stops extending at MaxStamp
ValidateExtend(session) ==
    /\ session \in DOMAIN sessions
    /\ ~Overflows(sessions[session])
    /\ ~(sessions[session] < now)
    /\ sessions[session] + SessionMinutes <= MaxStamp
    /\ sessions' = [sessions EXCEPT ![session] = @ + SessionMinutes]
    /\ result' = [op |-> "validate", session |-> session, value |-> TRUE]
    /\ life' = [life EXCEPT ![session] = IF @ \in {"data", "bare"} THEN "used" ELSE @]

\* validate_session, lines 136-158
validate_session(session) ==
    /\ \/ ValidateUnknown(session)
       \/ ValidateMalformed(session)
       \/ ValidateExpired(session)
       \/ ValidateExtend(session)
    /\ UNCHANGED <<now, sessions_data>>

-----------------------------------------------------------------------------
(* Ingress: token index                                                    *)

\* addon.ingress_token is None
NoToken == "None"
Tokens == {"tok1", "tok2"}

\* what sys_addons.installed can hold: addons with distinct slugs
Addons == [slug : AddonSlugs, with_ingress : BOOLEAN,
           ingress_token : Tokens \cup {NoToken}]

TokensIdle ==
    /\ installed = <<>>
    /\ tokens = EmptyDict
    /\ dropped = {}

\* Ingress.__init__ line 33; nothing installed yet
TokensInit ==
    /\ installed = <<>>
    /\ tokens = EmptyDict
    /\ dropped = {}

\* the addon manager installs an addon
Install(addon) ==
    /\ \A i \in 1 .. Len(installed) : installed[i].slug # addon.slug
    /\ installed' = Append(installed, addon)
    /\ UNCHANGED <<tokens, dropped>>

\* the addon manager removes the addon at position i
Uninstall(i) ==
    /\ i \in 1 .. Len(installed)
    /\ installed' = [j \in 1 .. (Len(installed) - 1) |->
                        IF j < i THEN installed[j] ELSE installed[j + 1]]
    /\ UNCHANGED <<tokens, dropped>>

\* the addon at position i is rebuilt with another configuration or token
Reconfigure(i, addon) ==
    /\ i \in 1 .. Len(installed)
    /\ addon.slug = installed[i].slug
    /\ addon # installed[i]
    /\ installed' = [installed EXCEPT ![i] = addon]
    /\ UNCHANGED <<tokens, dropped>>

WithIngress(addon) == addon.with_ingress

\* property Ingress.addons, lines 62-70
addons == SelectSeq(installed, WithIngress)

\* the loop of lines 121-123 over the list seq, starting from the index acc
RECURSIVE BuildTokens(_, _)
BuildTokens(seq, acc) ==
    IF seq = <<>> THEN acc
    ELSE BuildTokens(Tail(seq),
                     IF Head(seq).ingress_token # NoToken
                       THEN Put(acc, Head(seq).ingress_token, Head(seq).slug)
                       ELSE acc)

\* (mutant) line 118 is lost: the index is updated in place
NotCleared(index) == index

\* self.tokens.clear(), line 118
Cleared(index) == EmptyDict

\* _update_token_list, lines 116-123
_update_token_list ==
    /\ tokens' = BuildTokens(addons, Cleared(tokens))
    /\ dropped' = DOMAIN tokens \ DOMAIN tokens'
    /\ UNCHANGED installed

-----------------------------------------------------------------------------
(* PluginManager                                                           *)

\* all_plugins, lines 39-42, by slug
all_plugins == <<"cli", "dns", "audio", "observer", "multicast">>

PluginSlugs == {all_plugins[i] : i \in 1 .. Len(all_plugins)}

\* how an awaited plugin operation ends: it returns, raises HassioError or
\* raises another subclass of Exception.  The handlers' own awaits of
\* async_capture_exception (lines 83, 117, 135) start no plugin operation and
\* are part of the step that handles the outcome.
Outcomes == {"ok", "HassioError", "Exception"}

\* create_issue of lines 77-82
FatalIssue(slug) ==
    [type |-> "fatal_error", context |-> "plugin", reference |-> slug,
     suggestions |-> <<"execute_repair">>]

\* create_issue of lines 109-114
UpdateIssue(slug) ==
    [type |-> "update_failed", context |-> "plugin", reference |-> slug,
     suggestions |-> <<"execute_update">>]

PluginsIdle ==
    /\ method = "none"
    /\ phase = "done"
    /\ idx = 0
    /\ inflight = {}
    /\ calls = <<>>
    /\ finished = <<>>
    /\ issues = <<>>
    /\ need_update = [p \in PluginSlugs |-> FALSE]
    /\ sup_need_update = FALSE
    /\ gate = "unread"
    /\ raised = FALSE

\* PluginManager.__init__, lines 24-32: no coroutine of the manager is running;
\* the plugins and the supervisor are in any update state
PluginsInit ==
    /\ method = "none"
    /\ phase = "done"
    /\ idx = 0
    /\ inflight = {}
    /\ calls = <<>>
    /\ finished = <<>>
    /\ issues = <<>>
    /\ need_update \in [PluginSlugs -> BOOLEAN]
    /\ sup_need_update \in BOOLEAN
    /\ gate = "unread"
    /\ raised = FALSE

\* the coroutine goes on to await op on the plugins at the positions js, the
\* awaits in done being over
Await(done, ph, js, op) ==
    /\ method' = method
    /\ phase' = ph
    /\ idx' = CHOOSE j \in js : \A k \in js : k <= j
    /\ inflight' = (inflight \ done) \cup {<<op, all_plugins[j]>> : j \in js}
    /\ calls' = calls \o [k \in 1 .. Cardinality(js) |->
                  <<op, all_plugins[CHOOSE j \in js :
                                      Cardinality({i \in js : i < j}) = k - 1]>>]
    /\ raised' = raised

\* the coroutine ends: it returns, or the exception exc escapes from it
Return(done, exc) ==
    /\ method' = method
    /\ phase' = "done"
    /\ idx' = 0
    /\ inflight' = inflight \ done
    /\ calls' = calls
    /\ raised' = exc

\* (mutant) the operations of all the remaining plugins are started together
IterationGathered(j) == j .. Len(all_plugins)

\* `for plugin in self.all_plugins` with `await` in its body (lines 72-74,
\* 90-101): the iteration at position j alone is started
Iteration(j) == {j}

\* except Exception, lines 75-83: the issues the handler creates
LoadIssues(slug, outcome) ==
    IF outcome = "ok" THEN <<>> ELSE <<FatalIssue(slug)>>

\* (mutant) no handler: a failing load ends load()
LoadAborts(outcome) == outcome = "ok"

\* except Exception, line 75: the outcomes after which the loop goes on
LoadContinues(outcome) == outcome \in {"ok", "HassioError", "Exception"}

\* (mutant) lines 86-87 are lost
SupervisorIgnored == FALSE

\* line 86
SupervisorOutdated == sup_need_update

\* (mutant) line 92 also skips a plugin whose load raised
NextUpdateSkipsFailed(i) ==
    LET need == {j \in i .. Len(all_plugins) :
                   /\ need_update[all_plugins[j]]
                   /\ \A k \in 1 .. Len(finished) :
                        finished[k][2] = all_plugins[j] => finished[k][3] = "ok"}
    IN  IF need = {} THEN 0 ELSE CHOOSE j \in need : \A k \in need : j <= k

\* line 92: the first position from i on whose plugin needs an update, 0 if none
NextUpdate(i) ==
    LET need == {j \in i .. Len(all_plugins) : need_update[all_plugins[j]]}
    IN  IF need = {} THEN 0 ELSE CHOOSE j \in need : \A k \in need : j <= k

\* lines 90-101 from position i: up to the next await of plugin.update
UpdateFrom(done, i) ==
    IF NextUpdate(i) = 0
      THEN Return(done, FALSE)
      ELSE Await(done, "update", Iteration(NextUpdate(i)), "update")

\* load() is called: lines 69-74 up to the first await
load ==
    /\ phase = "done"
    /\ method' = "load"
    /\ phase' = "load"
    /\ idx' = 1
    /\ inflight' = {<<"load", all_plugins[j]>> : j \in Iteration(1)}
    /\ calls' = [k \in 1 .. Cardinality(Iteration(1)) |-> <<"load", all_plugins[k]>>]
    /\ finished' = <<>>
    /\ issues' = <<>>
    /\ gate' = "unread"
    /\ raised' = FALSE
    /\ UNCHANGED <<need_update, sup_need_update>>

\* the awaited plugin.load() of line 74 ends: lines 75-92 up to the next await
load_done(slug, outcome) ==
    /\ method = "load"
    /\ phase = "load"
    /\ <<"load", slug>> \in inflight
    /\ finished' = Append(finished, <<"load", slug, outcome>>)
    /\ issues' = issues \o LoadIssues(slug, outcome)
    /\ IF ~LoadContinues(outcome)
         THEN Return({<<"load", slug>>}, TRUE) /\ gate' = gate
         ELSE IF idx < Len(all_plugins)
           THEN Await({<<"load", slug>>}, "load", Iteration(idx + 1), "load")
                /\ gate' = gate
           ELSE /\ gate' = IF sup_need_update THEN "outdated" ELSE "current"
                /\ IF SupervisorOutdated
                     THEN Return({<<"load", slug>>}, FALSE)
                     ELSE UpdateFrom({<<"load", slug>>}, 1)
    /\ UNCHANGED <<need_update, sup_need_update>>

\* (mutant) the handler of lines 115-117 creates the issue too
UpdateIssuesForAnyFailure(slug, outcome) ==
    IF outcome = "ok" THEN <<>> ELSE <<UpdateIssue(slug)>>

\* except HassioError, lines 102-114: the issues the handler creates
UpdateIssues(slug, outcome) ==
    IF outcome = "HassioError" THEN <<UpdateIssue(slug)>> ELSE <<>>

\* except HassioError / except Exception, lines 102, 115
UpdateContinues(outcome) == outcome \in {"ok", "HassioError", "Exception"}

\* the awaited plugin.update() of line 101 ends: lines 102-117, then the loop
update_done(slug, outcome) ==
    /\ method = "load"
    /\ phase = "update"
    /\ <<"update", slug>> \in inflight
    /\ finished' = Append(finished, <<"update", slug, outcome>>)
    /\ issues' = issues \o UpdateIssues(slug, outcome)
    /\ IF ~UpdateContinues(outcome)
         THEN Return({<<"update", slug>>}, TRUE)
         ELSE UpdateFrom({<<"update", slug>>}, idx + 1)
    /\ UNCHANGED <<need_update, sup_need_update, gate>>

\* the generator of lines 128-130
Stopped(slug) == slug # "observer"

\* the first position from i on that the generator yields, 0 if none
NextStop(i) ==
    LET rest == {j \in i .. Len(all_plugins) : Stopped(all_plugins[j])}
    IN  IF rest = {} THEN 0 ELSE CHOOSE j \in rest : \A k \in rest : j <= k

\* lines 128-132 from position i: up to the next await of plugin.stop
StopFrom(done, i) ==
    IF NextStop(i) = 0
      THEN Return(done, FALSE)
      ELSE Await(done, "stop", Iteration(NextStop(i)), "stop")

\* shutdown() is called: lines 125-132 up to the first await
shutdown ==
    /\ phase = "done"
    /\ method' = "shutdown"
    /\ phase' = "stop"
    /\ idx' = NextStop(1)
    /\ inflight' = {<<"stop", all_plugins[j]>> : j \in Iteration(NextStop(1))}
    /\ calls' = <<<<"stop", all_plugins[NextStop(1)]>>>>
    /\ finished' = <<>>
    /\ issues' = <<>>
    /\ gate' = "unread"
    /\ raised' = FALSE
    /\ UNCHANGED <<need_update, sup_need_update>>

\* except Exception, lines 133-135: the issues the handler creates
StopIssues(slug, outcome) == <<>>

\* (mutant) only HassioError is handled
StopHandlesHassioError(outcome) == outcome \in {"ok", "HassioError"}

\* except Exception, line 133
StopContinues(outcome) == outcome \in {"ok", "HassioError", "Exception"}

\* the awaited plugin.stop() of line 132 ends: lines 133-135, then the loop
stop_done(slug, outcome) ==
    /\ method = "shutdown"
    /\ phase = "stop"
    /\ <<"stop", slug>> \in inflight
    /\ finished' = Append(finished, <<"stop", slug, outcome>>)
    /\ issues' = issues \o StopIssues(slug, outcome)
    /\ IF ~StopContinues(outcome)
         THEN Return({<<"stop", slug>>}, TRUE)
         ELSE StopFrom({<<"stop", slug>>}, idx + 1)
    /\ UNCHANGED <<need_update, sup_need_update, gate>>

\* (mutant) asyncio.wait with return_when=FIRST_COMPLETED
FirstCompleted(left) == TRUE

\* asyncio.wait of line 121 (return_when=ALL_COMPLETED): the coroutine goes on
\* once none of the tasks is left running, however each of them ended
AllCompleted(left) == left = {}

\* the list comprehension of lines 121-123: the positions of the plugins for
\* which sys_create_task(plugin.repair()) is called
RepairTasks == 1 .. Len(all_plugins)

\* repair() is called: lines 119-123 up to the await of asyncio.wait
repair ==
    /\ phase = "done"
    /\ method' = "repair"
    /\ phase' = "repair"
    /\ idx' = Len(all_plugins)
    /\ inflight' = inflight \cup {<<"repair", all_plugins[j]>> : j \in RepairTasks}
    /\ calls' = [k \in 1 .. Cardinality(RepairTasks) |->
                  <<"repair", all_plugins[CHOOSE j \in RepairTasks :
                                  Cardinality({i \in RepairTasks : i < j}) = k - 1]>>]
    /\ finished' = <<>>
    /\ issues' = <<>>
    /\ gate' = "unread"
    /\ raised' = FALSE
    /\ UNCHANGED <<need_update, sup_need_update>>

\* the task of plugin.repair() ends, by returning or by an exception that
\* stays in the task; asyncio.wait (line 121) returns when it was the last
repair_done(slug, outcome) ==
    /\ method = "repair"
    /\ <<"repair", slug>> \in inflight
    /\ finished' = Append(finished, <<"repair", slug, outcome>>)
    /\ IF phase = "repair" /\ AllCompleted(inflight \ {<<"repair", slug>>})
         THEN Return({<<"repair", slug>>}, FALSE)
         ELSE /\ inflight' = inflight \ {<<"repair", slug>>}
              /\ UNCHANGED <<method, phase, idx, calls, raised>>
    /\ UNCHANGED <<need_update, sup_need_update, gate, issues>>

\* the supervisor's own update state changes while load() awaits a plugin
\* (it is read once, at line 86)
supervisor_change ==
    /\ method = "load"
    /\ phase = "load"
    /\ sup_need_update' = ~sup_need_update
    /\ UNCHANGED <<method, phase, idx, inflight, calls, finished, issues,
                   need_update, gate, raised>>

-----------------------------------------------------------------------------
(* Specifications                                                          *)

InitPorts == PortsInit /\ SessionsIdle /\ TokensIdle /\ PluginsIdle

NextPorts ==
    \/ \E t \in Tasks, w \in AddonSlugs :
         get_dynamic_port(t, w) /\ UNCHANGED <<varsSessions, varsTokens, varsPlugins>>
    \/ \E t \in Tasks :
         check_port_done(t) /\ UNCHANGED <<varsSessions, varsTokens, varsPlugins>>
    \/ \E t \in Tasks :
         get_dynamic_port_return(t) /\ UNCHANGED <<varsSessions, varsTokens, varsPlugins>>
    \/ \E t \in Tasks, w \in AddonSlugs :
         del_dynamic_port(t, w) /\ UNCHANGED <<varsSessions, varsTokens, varsPlugins>>
    \/ \E t \in Tasks :
         del_dynamic_port_return(t) /\ UNCHANGED <<varsSessions, varsTokens, varsPlugins>>

\* callers of get_dynamic_port and del_dynamic_port on every event loop task
SpecPorts == InitPorts /\ [][NextPorts]_vars

\* a call for addon w is in progress
Busy(w) == \E t \in Tasks : pc[t] # "idle" /\ addon_slug[t] = w

NextPortsInARow ==
    \/ \E t \in Tasks, w \in AddonSlugs :
         /\ ~Busy(w)
         /\ get_dynamic_port(t, w)
         /\ UNCHANGED <<varsSessions, varsTokens, varsPlugins>>
    \/ \E t \in Tasks :
         check_port_done(t) /\ UNCHANGED <<varsSessions, varsTokens, varsPlugins>>
    \/ \E t \in Tasks :
         get_dynamic_port_return(t) /\ UNCHANGED <<varsSessions, varsTokens, varsPlugins>>
    \/ \E t \in Tasks, w \in AddonSlugs :
         /\ ~Busy(w)
         /\ del_dynamic_port(t, w)
         /\ UNCHANGED <<varsSessions, varsTokens, varsPlugins>>
    \/ \E t \in Tasks :
         del_dynamic_port_return(t) /\ UNCHANGED <<varsSessions, varsTokens, varsPlugins>>

\* the calls for one addon are made in a row, each after the one before has
\* returned; calls for different addons overlap freely
SpecPortsInARow == InitPorts /\ [][NextPortsInARow]_vars

\* the event loop resumes every coroutine whose await has completed, and
\* random.randint (line 171), called again and again, returns every port of
\* the range again and again
FairPorts ==
    \A t \in Tasks :
        /\ WF_vars(check_port_done(t)
                     /\ UNCHANGED <<varsSessions, varsTokens, varsPlugins>>)
        /\ WF_vars(get_dynamic_port_return(t)
                     /\ UNCHANGED <<varsSessions, varsTokens, varsPlugins>>)
        /\ WF_vars(del_dynamic_port_return(t)
                     /\ UNCHANGED <<varsSessions, varsTokens, varsPlugins>>)
        /\ \A p \in PortRange :
             SF_vars(check_port_done(t) /\ pc'[t] = "check_port" /\ port'[t] = p
                       /\ UNCHANGED <<varsSessions, varsTokens, varsPlugins>>)

\* SpecPorts on a fair event loop with a fair random source
SpecPortsFair == InitPorts /\ [][NextPorts]_vars /\ FairPorts

\* no assignment exists when the first call is made
InitPortsSameAddon == InitPorts /\ ports = EmptyDict

NextPortsSameAddon ==
    \/ \E t \in Tasks :
         get_dynamic_port(t, "addon_x") /\ UNCHANGED <<varsSessions, varsTokens, varsPlugins>>
    \/ \E t \in Tasks :
         check_port_done(t) /\ UNCHANGED <<varsSessions, varsTokens, varsPlugins>>
    \/ \E t \in Tasks :
         get_dynamic_port_return(t) /\ UNCHANGED <<varsSessions, varsTokens, varsPlugins>>

\* every task calls get_dynamic_port for the one addon addon_x, on a fair
\* event loop with a fair random source; nothing else touches the ports
SpecPortsSameAddon == InitPortsSameAddon /\ [][NextPortsSameAddon]_vars /\ FairPorts

NextPortsRestart ==
    \/ NextPorts
    \/ restart /\ UNCHANGED <<varsSessions, varsTokens, varsPlugins>>

\* SpecPorts with restarts of the process at any moment
SpecPortsRestart == InitPorts /\ [][NextPortsRestart]_vars

InitSessions == PortsIdle /\ SessionsInit /\ TokensIdle /\ PluginsIdle

NextSessions ==
    \/ Tick /\ UNCHANGED <<varsPorts, varsTokens, varsPlugins>>
    \/ _cleanup_sessions /\ UNCHANGED <<varsPorts, varsTokens, varsPlugins>>
    \/ \E s \in SessionIds, data \in {"None", "data"} :
         create_session(s, data) /\ UNCHANGED <<varsPorts, varsTokens, varsPlugins>>
    \/ \E s \in SessionIds :
         validate_session(s) /\ UNCHANGED <<varsPorts, varsTokens, varsPlugins>>

SpecSessions == InitSessions /\ [][NextSessions]_vars

InitTokens == PortsIdle /\ SessionsIdle /\ TokensInit /\ PluginsIdle

NextTokens ==
    \/ \E a \in Addons : Install(a) /\ UNCHANGED <<varsPorts, varsSessions, varsPlugins>>
    \/ \E i \in 1 .. Cardinality(AddonSlugs) :
         Uninstall(i) /\ UNCHANGED <<varsPorts, varsSessions, varsPlugins>>
    \/ \E i \in 1 .. Cardinality(AddonSlugs), a \in Addons :
         Reconfigure(i, a) /\ UNCHANGED <<varsPorts, varsSessions, varsPlugins>>
    \/ _update_token_list /\ UNCHANGED <<varsPorts, varsSessions, varsPlugins>>

SpecTokens == InitTokens /\ [][NextTokens]_vars

InitPlugins == PortsIdle /\ SessionsIdle /\ TokensIdle /\ PluginsInit

NextPlugins ==
    \/ load /\ UNCHANGED <<varsPorts, varsSessions, varsTokens>>
    \/ \E p \in PluginSlugs, o \in Outcomes :
         load_done(p, o) /\ UNCHANGED <<varsPorts, varsSessions, varsTokens>>
    \/ \E p \in PluginSlugs, o \in Outcomes :
         update_done(p, o) /\ UNCHANGED <<varsPorts, varsSessions, varsTokens>>
    \/ shutdown /\ UNCHANGED <<varsPorts, varsSessions, varsTokens>>
    \/ \E p \in PluginSlugs, o \in Outcomes :
         stop_done(p, o) /\ UNCHANGED <<varsPorts, varsSessions, varsTokens>>
    \/ supervisor_change /\ UNCHANGED <<varsPorts, varsSessions, varsTokens>>

SpecPlugins == InitPlugins /\ [][NextPlugins]_vars

InitRepair == PortsIdle /\ SessionsIdle /\ TokensIdle /\ PluginsIdle

NextRepair ==
    \/ repair /\ UNCHANGED <<varsPorts, varsSessions, varsTokens>>
    \/ \E p \in PluginSlugs, o \in Outcomes :
         repair_done(p, o) /\ UNCHANGED <<varsPorts, varsSessions, varsTokens>>

\* repair() and the five tasks it creates
SpecRepair == InitRepair /\ [][NextRepair]_vars

-----------------------------------------------------------------------------
(* Properties of the dynamic ports                                         *)

\* C1: in every reachable state, whatever the interleaving of
\* get_dynamic_port and del_dynamic_port calls, no two distinct addons hold
\* the same port in self.ports.
C1_PortsUnique == Injective(ports)

\* C2: a get_dynamic_port(w) call made after a get_dynamic_port(w) call has
\* returned, with no del_dynamic_port(w) since, returns the same port at once:
\* it awaits no check_port and changes neither self.ports nor the saved file.
C2_SecondCallSame ==
    [][\A t \in Tasks, w \in AddonSlugs :
         (get_dynamic_port(t, w) /\ lastRet[w] # NoPort)
           => /\ lastRet'[w] = lastRet[w]
              /\ fast'
              /\ pc'[t] = "idle"
              /\ ports' = ports
              /\ saved' = saved]_vars

\* the last get_dynamic_port call returned without suspending, every port
\* returned is the one assigned and saved, and no call is in progress
C2_Witness ==
    /\ fast
    /\ ports # EmptyDict
    /\ \A w \in DOMAIN ports : lastRet[w] = ports[w]
    /\ saved = ports
    /\ \A t \in Tasks : pc[t] = "idle"

\* C12: every call of get_dynamic_port that entered the sampling loop of
\* lines 166-171 leaves it, also when every port of the range is assigned or
\* reported bound.
C12_GetTerminates ==
    \A t \in Tasks :
        (pc[t] \in {"check_port", "spin"}) ~> (pc[t] \notin {"check_port", "spin"})

\* C13: when check_port reports every port of the range bound except p,
\* every call of get_dynamic_port for addon_x that is in its sampling loop
\* eventually has returned with addon_x assigned p in self.ports and in the
\* saved configuration; and no call ever returns a port that is bound or out
\* of the range.
C13_EventuallyTheFreePort ==
    /\ [](\A w \in AddonSlugs :
             lastRet[w] # NoPort => lastRet[w] \in PortRange \ bound)
    /\ \A t \in Tasks, p \in PortRange :
         (PortRange \ bound = {p} /\ pc[t] = "check_port")
           ~> (/\ pc[t] = "idle"
               /\ lastRet["addon_x"] = p
               /\ "addon_x" \in DOMAIN ports /\ ports["addon_x"] = p
               /\ "addon_x" \in DOMAIN saved /\ saved["addon_x"] = p)

\* a call is suspended in save_data after it changed self.ports
Saving == \E t \in Tasks : pc[t] \in {"save_get", "save_del"}

C19_OverlappingCallsAgree ==
    /\ [][\A t \in Tasks :
            (get_dynamic_port_return(t) /\ lastRet[addon_slug[t]] # NoPort)
               => port[t] = lastRet[addon_slug[t]]]_vars
    /\ []((lastRet["addon_x"] # NoPort /\ \A t \in Tasks : pc[t] = "idle")
            => ("addon_x" \in DOMAIN ports /\ ports["addon_x"] = lastRet["addon_x"]))

-----------------------------------------------------------------------------
(* Properties of the sessions                                              *)

\* the session with this id was put in self.sessions by create_session
Created(s) == life[s] \in {"data", "bare", "used", "refused"}

\* C3: validate_session called right after create_session returned the id
\* returns True; and no step removes from self.sessions a session made by
\* create_session unless its expiry, as last extended, has passed.
C3_CreatedSessionLives ==
    [][/\ \A s \in SessionIds :
            (result.op = "create" /\ result.session = s /\ validate_session(s))
              => result'.value = TRUE
       /\ \A s \in DOMAIN sessions :
            (Created(s) /\ s \notin DOMAIN sessions') => sessions[s] < now]_vars

\* one session was validated in the minute it was created, another one made
\* by create_session was removed after its expiry
C3_Witness ==
    /\ result.op = "validate"
    /\ result.value = TRUE
    /\ life[result.session] = "used"
    /\ sessions[result.session] = now + 2 * SessionMinutes
    /\ \E s \in SessionIds : life[s] = "swept" /\ s \notin DOMAIN sessions

\* C4: _cleanup_sessions leaves in self.sessions exactly the entries whose
\* expiry is parsable and not in the past, unchanged, and in
\* self.sessions_data exactly the records of those sessions, unchanged, the
\* empty records included.
C4_CleanupExact ==
    [][_cleanup_sessions =>
         LET alive == {s \in DOMAIN sessions :
                         sessions[s] <= MaxStamp /\ sessions[s] >= now}
         IN  /\ sessions' = Restrict(sessions, alive)
             /\ sessions_data' =
                  Restrict(sessions_data, alive \cap DOMAIN sessions_data)]_vars

\* C6: a session created with metadata and not validated since stays
\* refused once the clock is past its expiry: validate_session returns False
\* and leaves the expiry as it is, and _cleanup_sessions removes the session
\* from self.sessions and from self.sessions_data.
C6_ExpiredIsRefusedAndSwept ==
    [][\A s \in DOMAIN sessions :
         (life[s] \in {"data", "refused"} /\ sessions[s] < now)
           => /\ validate_session(s)
                   => (result'.value = FALSE /\ sessions' = sessions)
              /\ _cleanup_sessions
                   => (s \notin DOMAIN sessions' /\ s \notin DOMAIN sessions_data')]_vars

\* a session created with metadata was refused after its expiry and then
\* removed from both tables by the cleanup
C6_Witness ==
    /\ result.op = "cleanup"
    /\ \E s \in SessionIds :
         /\ life[s] = "swept"
         /\ s \notin DOMAIN sessions
         /\ s \notin DOMAIN sessions_data

\* C14: a step of create_session, validate_session or _cleanup_sessions
\* taken where every key of sessions_data is a key of sessions leads to
\* tables where that is so again; and after a pass of _cleanup_sessions it is
\* so whatever the tables held before the pass.
C14_MetadataOnlyForSessions ==
    [][/\ (DOMAIN sessions_data \subseteq DOMAIN sessions)
            => (DOMAIN sessions_data' \subseteq DOMAIN sessions')
       /\ _cleanup_sessions => (DOMAIN sessions_data' \subseteq DOMAIN sessions')]_vars

\* a pass of _cleanup_sessions has removed a refused session with its
\* metadata and has kept another session with its metadata
C14_Witness ==
    /\ result.op = "cleanup"
    /\ \E s \in SessionIds : life[s] = "swept" /\ s \notin DOMAIN sessions_data
    /\ \E s \in DOMAIN sessions_data : life[s] = "data" /\ s \in DOMAIN sessions

C17_MalformedExpiryHealedOrSwept ==
    [][\A s \in SessionIds :
         (s \in DOMAIN sessions /\ Overflows(sessions[s])) =>
            /\ validate_session(s) =>
                 /\ result'.value = TRUE
                 /\ sessions' = [sessions EXCEPT ![s] = now + SessionMinutes]
                 /\ sessions_data' = sessions_data
                 /\ s \in Kept'
            /\ _cleanup_sessions =>
                 /\ s \notin DOMAIN sessions'
                 /\ s \notin DOMAIN sessions_data']_vars

\* at time 1 a session read from the saved configuration has expiry 1 + 15:
\* no creation and no extension gives that, validate_session has reset it
C17_Witness ==
    /\ now = 1
    /\ \E s \in DOMAIN sessions :
         /\ result = [op |-> "validate", session |-> s, value |-> TRUE]
         /\ life[s] = "none"
         /\ sessions[s] = now + SessionMinutes
         /\ s \in DOMAIN sessions_data

-----------------------------------------------------------------------------
(* Properties of the token index                                           *)

\* C5: after _update_token_list the keys of self.tokens are exactly the
\* tokens of the installed addons that have ingress and a token, each key maps
\* to the (last) installed addon holding it, and nothing of the index as it
\* was before survives.
C5_TokenIndexExact ==
    [][_update_token_list =>
         LET live == {i \in 1 .. Len(installed) :
                        /\ installed[i].with_ingress
                        /\ installed[i].ingress_token # NoToken}
         IN  /\ DOMAIN tokens' = {installed[i].ingress_token : i \in live}
             /\ \A k \in DOMAIN tokens' :
                  \E i \in live :
                      /\ installed[i].ingress_token = k
                      /\ installed[i].slug = tokens'[k]
                      /\ \A j \in live : installed[j].ingress_token = k => j <= i]_vars

\* a rebuild dropped the token of an addon that is gone and kept another one
C5_Witness ==
    /\ dropped # {}
    /\ tokens # EmptyDict
    /\ \A k \in dropped :
         \A i \in 1 .. Len(installed) : installed[i].ingress_token # k
    /\ \A k \in DOMAIN tokens :
         \E i \in 1 .. Len(installed) :
             installed[i].ingress_token = k /\ installed[i].with_ingress

-----------------------------------------------------------------------------
(* Properties of the plugin manager                                        *)

Ops(log, op) == SelectSeq(log, LAMBDA e : e[1] = op)

\* the plugins whose operation op ended by an exception
Failed(op) == {finished[i][2] : i \in {j \in 1 .. Len(finished) :
                   finished[j][1] = op /\ finished[j][3] # "ok"}}

IssuesOf(type, slug) ==
    {i \in 1 .. Len(issues) : issues[i].type = type /\ issues[i].reference = slug}

\* C7: when the load loop of load() is over, load was awaited exactly once
\* on each of the five plugins, in the order of all_plugins, whatever loads
\* raised; and there is exactly one fatal_error issue, with suggestion
\* execute_repair, for each plugin whose load raised and none for the others.
C7_LoadIsolatesFailures ==
    (method = "load" /\ phase # "load") =>
        /\ Ops(calls, "load") = [i \in 1 .. Len(all_plugins) |-> <<"load", all_plugins[i]>>]
        /\ Len(Ops(finished, "load")) = Len(all_plugins)
        /\ \A p \in PluginSlugs :
             Cardinality(IssuesOf("fatal_error", p)) = IF p \in Failed("load") THEN 1 ELSE 0
        /\ \A i \in 1 .. Len(issues) :
             issues[i].type = "fatal_error" =>
                /\ issues[i].context = "plugin"
                /\ issues[i].reference \in PluginSlugs
                /\ issues[i].suggestions = <<"execute_repair">>

\* load() has ended after the load of dns alone raised
C7_Witness ==
    /\ method = "load"
    /\ phase = "done"
    /\ Failed("load") = {"dns"}
    /\ Len(Ops(finished, "load")) = Len(all_plugins)
    /\ issues = <<FatalIssue("dns")>>

\* C8: when the supervisor reported need_update at the end of the load loop,
\* load() awaits update on no plugin and creates no update_failed issue.
C8_NoUpdateBeforeSupervisor ==
    (method = "load" /\ gate = "outdated") =>
        /\ phase = "done"
        /\ Ops(calls, "update") = <<>>
        /\ \A i \in 1 .. Len(issues) : issues[i].type # "update_failed"

\* load() ended at line 87 although every plugin needed an update and a load
\* had failed
C8_Witness ==
    /\ method = "load"
    /\ gate = "outdated"
    /\ phase = "done"
    /\ \A p \in PluginSlugs : need_update[p]
    /\ Failed("load") # {}
    /\ Len(finished) = Len(all_plugins)

\* C9: shutdown() awaits stop once on cli, dns, audio and multicast, in that
\* order, and never on observer; whatever stops raised it ends without an
\* exception and without creating an issue.
C9_ShutdownRunsToCompletion ==
    (method = "shutdown") =>
        /\ \A i \in 1 .. Len(calls) : calls[i][2] # "observer"
        /\ issues = <<>>
        /\ ~raised
        /\ phase = "done" =>
             /\ calls = <<<<"stop", "cli">>, <<"stop", "dns">>,
                          <<"stop", "audio">>, <<"stop", "multicast">>>>
             /\ Len(finished) = Len(calls)

\* shutdown() has ended after the stops of cli and audio raised
C9_Witness ==
    /\ method = "shutdown"
    /\ phase = "done"
    /\ finished = <<<<"stop", "cli", "HassioError">>, <<"stop", "dns", "ok">>,
                    <<"stop", "audio", "Exception">>, <<"stop", "multicast", "ok">>>>

\* position of a plugin in all_plugins
Pos(slug) == CHOOSE i \in 1 .. Len(all_plugins) : all_plugins[i] = slug

\* C10: within load() and shutdown() at most one plugin operation is in
\* flight; an operation starts only when all the operations started before
\* it have completed; within each loop the plugins are taken in the order of
\* all_plugins; and no update starts before the five loads have completed.
C10_StrictSequence ==
    /\ Cardinality(inflight) <= 1
    /\ Len(calls) = Len(finished) + Cardinality(inflight)
    /\ \A i \in 1 .. Len(finished) :
         i <= Len(calls) /\ calls[i] = <<finished[i][1], finished[i][2]>>
    /\ \A e \in inflight : calls # <<>> /\ calls[Len(calls)] = e
    /\ \A i, j \in 1 .. Len(calls) :
         (i < j /\ calls[i][1] = calls[j][1]) => Pos(calls[i][2]) < Pos(calls[j][2])
    /\ \A i \in 1 .. Len(calls) :
         calls[i][1] = "update" =>
            /\ i > Len(all_plugins)
            /\ \A k \in 1 .. Len(all_plugins) :
                 /\ calls[k] = <<"load", all_plugins[k]>>
                 /\ k <= Len(finished)
                 /\ k < i

\* the five loads and four updates are over and the update of multicast is
\* in flight
C10_Witness ==
    /\ method = "load"
    /\ phase = "update"
    /\ inflight = {<<"update", "multicast">>}
    /\ Len(calls) = 2 * Len(all_plugins)
    /\ Len(finished) = Len(calls) - 1

\* C11: repair() starts a repair task for every one of the five plugins,
\* observer included, before it waits on any; it returns only when all five
\* have settled, by success or by failure, and without an exception; and
\* whatever the other repairs did, a repair that is still running can
\* complete with any outcome.
C11_RepairGathersAll ==
    (method = "repair") =>
        /\ calls = [k \in 1 .. Len(all_plugins) |-> <<"repair", all_plugins[k]>>]
        /\ inflight = {<<"repair", p>> : p \in PluginSlugs} \
                        {<<"repair", finished[i][2]>> : i \in 1 .. Len(finished)}
        /\ (phase = "done") <=> (inflight = {})
        /\ (phase = "done") => Len(finished) = Len(all_plugins)
        /\ issues = <<>>
        /\ ~raised
        /\ \A c \in inflight : \A o \in Outcomes : ENABLED repair_done(c[2], o)

\* repair() has returned after the repair of observer ended first, by an
\* exception, and the repair of cli last
C11_Witness ==
    /\ method = "repair"
    /\ phase = "done"
    /\ Len(finished) = Len(all_plugins)
    /\ finished[1] = <<"repair", "observer", "Exception">>
    /\ finished[Len(all_plugins)] = <<"repair", "cli", "ok">>
    /\ Failed("repair") = {"observer", "dns"}

\* the updates load() makes when every plugin that needs one gets one
UpdatesNeeded ==
    LET needing == SelectSeq(all_plugins, LAMBDA p : need_update[p])
    IN  [i \in 1 .. Len(needing) |-> <<"update", needing[i]>>]

\* C18: when the supervisor reported no need_update at the end of the load
\* loop, load() awaits update once on each plugin whose need_update is set,
\* in the order of all_plugins, and on no other; there is exactly one
\* update_failed issue, with suggestion execute_update, for each plugin whose
\* update raised HassioError and none for a plugin whose update returned or
\* raised another exception; and load() ends without an exception after the
\* last of these updates.
C18_UpdatePhaseIsolatesFailures ==
    (method = "load" /\ gate = "current") =>
        /\ ~raised
        /\ Len(Ops(calls, "update")) <= Len(UpdatesNeeded)
        /\ \A i \in 1 .. Len(Ops(calls, "update")) :
             Ops(calls, "update")[i] = UpdatesNeeded[i]
        /\ (phase = "done") =>
             /\ Ops(calls, "update") = UpdatesNeeded
             /\ Len(Ops(finished, "update")) = Len(UpdatesNeeded)
        /\ \A p \in PluginSlugs :
             Cardinality(IssuesOf("update_failed", p)) =
                Cardinality({i \in 1 .. Len(finished) :
                                finished[i] = <<"update", p, "HassioError">>})
        /\ \A i \in 1 .. Len(issues) :
             issues[i].type = "update_failed" =>
                /\ issues[i].context = "plugin"
                /\ issues[i].suggestions = <<"execute_update">>

\* load() has ended after the updates of dns, audio and multicast, the only
\* plugins that needed one: that of dns raised HassioError, that of audio
\* another exception
C18_Witness ==
    /\ method = "load"
    /\ gate = "current"
    /\ phase = "done"
    /\ Failed("load") = {}
    /\ Ops(finished, "update") = <<<<"update", "dns", "HassioError">>,
                                    <<"update", "audio", "Exception">>,
                                    <<"update", "multicast", "ok">>>>
    /\ issues = <<UpdateIssue("dns")>>

\* C20: when load() has ended after the supervisor reported no need_update,
\* every plugin whose load raised and whose need_update is set has its one
\* fatal_error issue and has been updated all the same; if that update
\* raised HassioError the plugin has an update_failed issue as well.
C20_UpdateWhateverTheLoadDid ==
    (method = "load" /\ gate = "current" /\ phase = "done") =>
        \A p \in Failed("load") :
            need_update[p] =>
               /\ Cardinality(IssuesOf("fatal_error", p)) = 1
               /\ \E i \in 1 .. Len(finished) :
                    finished[i][1] = "update" /\ finished[i][2] = p
               /\ p \in Failed("update") =>
                    \E i \in 1 .. Len(finished) :
                       /\ finished[i][1] = "update" /\ finished[i][2] = p
                       /\ (finished[i][3] = "HassioError")
                             <=> (IssuesOf("update_failed", p) # {})

\* one load() has ended with a fatal_error and an update_failed issue, both
\* for dns
C20_Witness ==
    /\ method = "load"
    /\ gate = "current"
    /\ phase = "done"
    /\ Failed("load") = {"dns"}
    /\ Failed("update") = {"dns"}
    /\ issues = <<FatalIssue("dns"), UpdateIssue("dns")>>

=============================================================================
